---- MODULE Spec2Model ----
(***************************************************************************)
(* A model of package aerrors (github.com/hanagantig/aerrors): the         *)
(* AsyncError queue, its Add/AddAsync admission, the StartHandle / Stop /  *)
(* Close lifecycle and the dispatch loop, as written in the latest         *)
(* snapshot of the package (src/unnamed/part_006).                         *)
(*                                                                         *)
(* Every goroutine is a process of the model:                              *)
(*   - the callers (Threads), each running one public method at a time,    *)
(*     one step per lock acquisition, WaitGroup call or channel operation, *)
(*     or running a task under a deferred PanicToError (Go);               *)
(*   - the goroutines AddAsync spawns (pending), one per waiting send;     *)
(*   - the dispatch loops `go e.start()` spawns (loops);                   *)
(*   - the goroutines handle() spawns to call the handler (spawned).       *)
(* An unrecovered Go panic ends the program: panicked names it and no      *)
(* action is enabled afterwards.                                           *)
(***************************************************************************)
EXTENDS Integers, Sequences, FiniteSets, TLC

\* ---------------------------------------------------------------- bounds
\* Number of goroutines that call the public methods concurrently.
NumThreads == 2
\* Number of errors made in one behaviour: Add and AddAsync calls and
\* recovered panics.
MaxErrs == 2
\* Capacity of errorChan (WithErrorChanLen; the tests use 2).
ErrorChanLen == 1
\* Number of dispatch loops that may be alive at once (caps StartHandle).
MaxLoops == 2

Threads == 1..NumThreads
NoThread == 0

VARIABLES
  closed,        \* e.closed
  running,       \* e.running
  mu,            \* e.mu: NoThread when free, else the caller holding it
  wg,            \* e.wg: the WaitGroup counter (pendingCount)
  errorChan,     \* e.errorChan: the buffered values, oldest first
  chanClosed,    \* close(e.errorChan) has happened
  stopClosed,    \* close(e.stopCh) has happened
  loops,         \* number of live goroutines running e.start()
  pending,       \* goroutines of AddAsync that have not sent yet
  handler,       \* e.handler != nil (WithHandler)
  baseError,     \* e.baseError (WithBaseError), NoBase when nil
  pc,            \* pc[t]: where caller t is in the method it runs
  arg,           \* arg[t]: the error caller t passed to Add/AddAsync
  ret,           \* ret[t]: what the last method of t returned
  panicked,      \* "none", or the runtime panic that ended the program
  handled,       \* errors passed to e.handle, in order
  spawned,       \* handler goroutines launched by handle, not yet run
  handlerErrs,   \* th.errs: errors the handler was invoked with, in order
  nextId,        \* identity of the next error value created by a caller
  admitted,      \* errors whose Add/AddAsync returned nil
  snap,          \* snap[t]: admitted, as it was when t called Close
  sawRunning,    \* sawRunning[t]: e.running as Close of t read it
  closeReturned  \* some Close call has returned

vars == <<closed, running, mu, wg, errorChan, chanClosed, stopClosed, loops,
          pending, handler, baseError, pc, arg, ret, panicked, handled,
          spawned, handlerErrs, nextId, admitted, snap, sawRunning,
          closeReturned>>

\* the fields of the struct and the channels' state
inst == <<closed, running, wg, errorChan, chanClosed, stopClosed, loops, pending>>
\* the options New was given
opts == <<handler, baseError>>
\* what the handling side has done
sink == <<handled, spawned, handlerErrs>>
\* bookkeeping of the callers other than pc, arg, ret
book == <<nextId, admitted, snap, sawRunning, closeReturned>>

\* ------------------------------------------------------------ error values
\* An error value: a nil interface (isNil) or a distinct non-nil error, as
\* errors.New makes.  id and by (the calling goroutine) and sync (Add, not
\* AddAsync) identify the call that passed it, rec tells the error
\* PanicToError made of a recovered panic; the code reads only isNil.
NoErr == [id |-> 0, isNil |-> TRUE, by |-> NoThread, sync |-> TRUE,
          rec |-> FALSE]

NewErr(n, t, isnil, s) ==
  [id |-> n, isNil |-> isnil, by |-> t, sync |-> s, rec |-> FALSE]

\* PanicToError, line 187-188: `err := fmt.Errorf("%v", p)` and
\* `Wrap(&err, "recoverToError()")`: a non-nil error made of the panic value,
\* which line 189 passes to Add.
PanicErr(n, t) ==
  [id |-> n, isNil |-> FALSE, by |-> t, sync |-> TRUE, rec |-> TRUE]

\* ------------------------------------------------------------ error chains
\* An error chain, as errors.Unwrap walks it: the error values from the
\* outermost to the innermost.  A value is told by what made it (kind) and
\* the Add it belongs to (of, 0 for the base error).
ErrVal(k, n) == [kind |-> k, of |-> n]

\* e.baseError when no WithBaseError was given: nil.
NoBase == ErrVal("nil", 0)
\* The error given to WithBaseError.
BaseErr == ErrVal("base", 0)

\* The chain of an error a caller passes to Add: errors.New makes a value
\* that wraps nothing; PanicToError (line 187-188) makes fmt.Errorf("%v",
\* p), which wraps nothing, and wraps it in the "recoverToError()" one.
ChainOf(e) ==
  IF e.rec THEN <<ErrVal("recoverToError()", e.id), ErrVal("panic", e.id)>>
           ELSE <<ErrVal("new", e.id)>>

\* handle, line 202: `fmt.Errorf("%w: %v", e.baseError, err)`: a new error
\* value that wraps the operand of %w, the base error (nothing when that is
\* nil); the operand of %v, the original error, only gives its text.
BaseWrap(base, e) ==
  <<ErrVal("errorf", e.id)>> \o (IF base = NoBase THEN <<>> ELSE <<base>>)

\* Wrap, line 177-182: `*errp = fmt.Errorf("%s: %w", s, *errp)`: a new
\* error value, named by the annotation s, that wraps the old one.
Wrap(chain, s, n) == <<ErrVal(s, n)>> \o chain

\* handle, line 202-203: the error handle passes on for the dequeued e.
HandleErr(e) == Wrap(BaseWrap(baseError, e), "HandleError()", e.id)

\* handle, line 202-203: the text of that error, piece by piece:
\* "HandleError(): <%w of e.baseError>: <%v of err>".  fmt prints a nil
\* operand of %w as the bad-verb text "%!w(<nil>)".
HandleText(e) ==
  <<"HandleError()",
    IF baseError = NoBase THEN "%!w(<nil>)" ELSE "base",
    IF e.rec THEN "recoverToError(): panic" ELSE "new">>

\* errors.Is(err, target): target is one of the values of err's chain.
Is(chain, target) == \E i \in 1..Len(chain) : chain[i] = target

ErrClosed == "closed"
Ok == "nil"
\* what a task that did not panic leaves in ret: it returns nothing
Done == "done"

\* ------------------------------------------------------------------- Init
\* New(opts...): channels made, nothing closed or running, counter zero;
\* with or without WithHandler and WithBaseError.
Init ==
  /\ closed = FALSE
  /\ running = FALSE
  /\ mu = NoThread
  /\ wg = 0
  /\ errorChan = <<>>
  /\ chanClosed = FALSE
  /\ stopClosed = FALSE
  /\ loops = 0
  /\ pending = {}
  /\ handler \in BOOLEAN
  /\ baseError \in {NoBase, BaseErr}
  /\ pc = [t \in Threads |-> "idle"]
  /\ arg = [t \in Threads |-> NoErr]
  /\ ret = [t \in Threads |-> "none"]
  /\ panicked = "none"
  /\ handled = <<>>
  /\ spawned = {}
  /\ handlerErrs = <<>>
  /\ nextId = 1
  /\ admitted = {}
  /\ snap = [t \in Threads |-> {}]
  /\ sawRunning = [t \in Threads |-> FALSE]
  /\ closeReturned = FALSE

Alive == panicked = "none"

\* IsClosed that misses the flag.
IsClosedStale == FALSE

\* IsClosed(): Lock, read e.closed, Unlock.  It can run only while no other
\* goroutine holds e.mu.
IsClosedReady == mu = NoThread

IsClosed == closed

\* Caller t moves on inside its method.
Goto(t, l) == /\ pc' = [pc EXCEPT ![t] = l]
              /\ UNCHANGED <<arg, ret>>

\* The method of caller t returns v.
Return(t, v) == /\ pc' = [pc EXCEPT ![t] = "idle"]
                /\ ret' = [ret EXCEPT ![t] = v]
                /\ arg' = [arg EXCEPT ![t] = NoErr]

\* Caller t calls a method with error e (NoErr when it takes none).
Call(t, l, e) == /\ pc' = [pc EXCEPT ![t] = l]
                 /\ arg' = [arg EXCEPT ![t] = e]
                 /\ UNCHANGED ret

\* The goroutine of caller t panics.
Die(t, why) == /\ panicked' = why
               /\ pc' = [pc EXCEPT ![t] = "dead"]
               /\ UNCHANGED <<arg, ret>>

\* the callers' own state
thr == <<pc, arg, ret>>

\* ------------------------------------------------------------ the callers
CallAdd(t, isnil) ==
  /\ Alive /\ pc[t] = "idle" /\ nextId <= MaxErrs
  /\ Call(t, "add_check", NewErr(nextId, t, isnil, TRUE))
  /\ nextId' = nextId + 1
  /\ UNCHANGED <<inst, sink, mu, opts, panicked, admitted, snap,
                 sawRunning, closeReturned>>

CallAddAsync(t, isnil) ==
  /\ Alive /\ pc[t] = "idle" /\ nextId <= MaxErrs
  /\ Call(t, "async_check", NewErr(nextId, t, isnil, FALSE))
  /\ nextId' = nextId + 1
  /\ UNCHANGED <<inst, sink, mu, opts, panicked, admitted, snap,
                 sawRunning, closeReturned>>

CallStop(t) ==
  /\ Alive /\ pc[t] = "idle"
  /\ Call(t, "stop_lock", NoErr)
  /\ UNCHANGED <<inst, sink, book, mu, opts, panicked>>

CallClose(t) ==
  /\ Alive /\ pc[t] = "idle"
  /\ Call(t, "close_check", NoErr)
  /\ snap' = [snap EXCEPT ![t] = admitted]
  /\ UNCHANGED <<inst, sink, mu, opts, panicked, nextId, admitted,
                 sawRunning, closeReturned>>

CallStartHandle(t) ==
  /\ Alive /\ pc[t] = "idle"
  /\ Call(t, "start_check", NoErr)
  /\ UNCHANGED <<inst, sink, book, mu, opts, panicked>>

\* Go, line 194-199: `go func() { defer e.PanicToError(); f() }()`.  The
\* new goroutine is one of Threads.
CallGo(t) ==
  /\ Alive /\ pc[t] = "idle"
  /\ Call(t, "go_run", NoErr)
  /\ UNCHANGED <<inst, sink, book, mu, opts, panicked>>

\* ---------------------------------------------------- Go and PanicToError
\* A recover() that is not called by the deferred function itself.
RecoversNothing == FALSE

\* PanicToError, line 186: `recover()` is called by PanicToError, the
\* function that was deferred: it stops the panic of the task.
Recovers == TRUE

\* The task f of Go runs to its end with PanicToError deferred (line 196-
\* 197).  If f returns, recover() yields nil and the goroutine ends.  If f
\* panics, PanicToError makes the error (line 187-188) and calls
\* `e.Add(err)` (line 189), whose result it drops.
TaskRun(t, panics) ==
  /\ Alive /\ pc[t] = "go_run"
  /\ IF ~panics
       THEN /\ Return(t, Done)
            /\ UNCHANGED <<nextId, panicked>>
       ELSE /\ nextId <= MaxErrs
            /\ IF Recovers
                 THEN /\ Call(t, "add_check", PanicErr(nextId, t))
                      /\ nextId' = nextId + 1
                      /\ UNCHANGED panicked
                 ELSE /\ Die(t, "panic in task")
                      /\ UNCHANGED nextId
  /\ UNCHANGED <<inst, sink, mu, opts, admitted, snap, sawRunning,
                 closeReturned>>

\* ------------------------------------------------------------------- Add
\* Add, line 84-87: `if e.IsClosed() { return errors.New(...) }`.
AddIsClosed(t) ==
  /\ Alive /\ pc[t] = "add_check" /\ IsClosedReady
  /\ IF IsClosed THEN Return(t, ErrClosed) ELSE Goto(t, "add_wg")
  /\ UNCHANGED <<inst, sink, book, mu, opts, panicked>>

\* Add, line 89: `e.wg.Add(1)`.
AddWg(t) ==
  /\ Alive /\ pc[t] = "add_wg"
  /\ wg' = wg + 1
  /\ Goto(t, "add_send")
  /\ UNCHANGED <<closed, running, errorChan, chanClosed, stopClosed, loops,
                 pending, sink, book, mu, opts, panicked>>

\* A send that never waits for room.
HasRoomAlways == TRUE

\* A send `e.errorChan <- err` can complete: the buffer has room.  (A send on
\* a closed channel does not wait for room: it panics.)
HasRoom == Len(errorChan) < ErrorChanLen

\* Add, line 90-92: `e.errorChan <- err; return nil`.  The send blocks while
\* the buffer is full and panics when the channel is, or gets, closed.
AddSend(t) ==
  /\ Alive /\ pc[t] = "add_send"
  /\ IF chanClosed
       THEN /\ Die(t, "send on closed channel")
            /\ UNCHANGED <<errorChan, admitted>>
       ELSE /\ HasRoom
            /\ errorChan' = Append(errorChan, arg[t])
            /\ admitted' = admitted \cup {arg[t]}
            /\ Return(t, Ok)
            /\ UNCHANGED panicked
  /\ UNCHANGED <<closed, running, wg, chanClosed, stopClosed, loops, pending,
                 sink, mu, opts, nextId, snap, sawRunning, closeReturned>>

\* -------------------------------------------------------------- AddAsync
\* AddAsync, line 97-100: `if e.IsClosed() { return errors.New(...) }`.
AddAsyncIsClosed(t) ==
  /\ Alive /\ pc[t] = "async_check" /\ IsClosedReady
  /\ IF IsClosed THEN Return(t, ErrClosed) ELSE Goto(t, "async_spawn")
  /\ UNCHANGED <<inst, sink, book, mu, opts, panicked>>

\* AddAsync that starts no goroutine.
SpawnDrop(e) == pending

\* The goroutines waiting to send after `go func() { e.errorChan <- err }()`.
SpawnSend(e) == pending \cup {e}

\* AddAsync, line 101-104: `e.wg.Add(1); go func() {...}(); return nil`.
AddAsyncSpawn(t) ==
  /\ Alive /\ pc[t] = "async_spawn"
  /\ wg' = wg + 1
  /\ pending' = SpawnSend(arg[t])
  /\ admitted' = admitted \cup {arg[t]}
  /\ Return(t, Ok)
  /\ UNCHANGED <<closed, running, errorChan, chanClosed, stopClosed, loops,
                 sink, mu, opts, panicked, nextId, snap, sawRunning,
                 closeReturned>>

\* The goroutine of AddAsync, line 102: `e.errorChan <- err`.
AsyncSend(e) ==
  /\ Alive /\ e \in pending
  /\ pending' = pending \ {e}
  /\ IF chanClosed
       THEN /\ panicked' = "send on closed channel"
            /\ UNCHANGED errorChan
       ELSE /\ HasRoom
            /\ errorChan' = Append(errorChan, e)
            /\ UNCHANGED panicked
  /\ UNCHANGED <<closed, running, wg, chanClosed, stopClosed, loops, sink,
                 book, mu, opts, thr>>

\* ------------------------------------------------------------------ Stop
\* A stop without its check of e.running.
StopNeverEarly == FALSE

\* stop, line 116-118: `if !e.running { return }`.
StopReturnsEarly == ~running

\* Stop, line 109-113, and stop, line 116-120: Lock; `if !e.running
\* { return }` (the deferred Unlock runs); else `e.running = false` and the
\* send of line 121 is next, with e.mu still held.
StopLock(t) ==
  /\ Alive /\ pc[t] = "stop_lock" /\ mu = NoThread
  /\ IF StopReturnsEarly
       THEN /\ Return(t, Ok)
            /\ UNCHANGED <<mu, running>>
       ELSE /\ mu' = t
            /\ running' = FALSE
            /\ Goto(t, "stop_send")
  /\ UNCHANGED <<closed, wg, errorChan, chanClosed, stopClosed, loops,
                 pending, sink, book, opts, panicked>>

\* stop, line 121: `e.stopCh <- struct{}{}` on the unbuffered stopCh: it
\* completes when one dispatch loop takes the `case <-e.stopCh` of its
\* select (line 169-171) and returns; on a closed stopCh it panics.  Stop
\* then returns and its deferred Unlock runs.
StopSend(t) ==
  /\ Alive /\ pc[t] = "stop_send"
  /\ IF stopClosed
       THEN /\ Die(t, "send on closed channel")
            /\ UNCHANGED <<loops, mu>>
       ELSE /\ loops > 0
            /\ loops' = loops - 1
            /\ mu' = NoThread
            /\ Return(t, Ok)
            /\ UNCHANGED panicked
  /\ UNCHANGED <<closed, running, wg, errorChan, chanClosed, stopClosed,
                 pending, sink, book, opts>>

\* ----------------------------------------------------------------- Close
\* Close without its early return.
CloseNoEarlyReturn == FALSE

\* Close, line 127-129: `if e.IsClosed() { return }`.
CloseEarlyReturn == IsClosed

CloseIsClosed(t) ==
  /\ Alive /\ pc[t] = "close_check" /\ IsClosedReady
  /\ IF CloseEarlyReturn
       THEN /\ Return(t, Ok)
            /\ closeReturned' = TRUE
            /\ snap' = [snap EXCEPT ![t] = {}]
       ELSE /\ Goto(t, "close_lock")
            /\ UNCHANGED <<closeReturned, snap>>
  /\ UNCHANGED <<inst, sink, mu, opts, panicked, nextId, admitted,
                 sawRunning>>

\* A Close that flips the flag.
ClosedFlipped == ~closed

\* Close, line 134: `e.closed = true`: the value the flag gets.
ClosedSet == TRUE

\* Close, line 131-135: Lock; `e.closed = true`; `if e.running`.
CloseLock(t) ==
  /\ Alive /\ pc[t] = "close_lock" /\ mu = NoThread
  /\ mu' = t
  /\ closed' = ClosedSet
  /\ sawRunning' = [sawRunning EXCEPT ![t] = running]
  /\ Goto(t, IF running THEN "close_wait" ELSE "close_chans")
  /\ UNCHANGED <<running, wg, errorChan, chanClosed, stopClosed, loops,
                 pending, sink, opts, panicked, nextId, admitted, snap,
                 closeReturned>>

\* Close that does not wait for the counter.
WaitReturnsNoDrain == TRUE

\* `e.wg.Wait()` returns: the counter is zero.
WaitReturns == wg = 0

\* Close, line 136-137: `e.wg.Wait()`, then stop() up to its send:
\* e.running is true here (e.mu is held since line 135), so
\* `e.running = false` and the send of line 121 is next.
CloseWait(t) ==
  /\ Alive /\ pc[t] = "close_wait"
  /\ WaitReturns
  /\ running' = FALSE
  /\ Goto(t, "close_stop")
  /\ UNCHANGED <<closed, wg, errorChan, chanClosed, stopClosed, loops,
                 pending, sink, book, mu, opts, panicked>>

\* Close, line 137, in stop, line 121: `e.stopCh <- struct{}{}`.
CloseStopSend(t) ==
  /\ Alive /\ pc[t] = "close_stop"
  /\ IF stopClosed
       THEN /\ Die(t, "send on closed channel")
            /\ UNCHANGED loops
       ELSE /\ loops > 0
            /\ loops' = loops - 1
            /\ Goto(t, "close_chans")
            /\ UNCHANGED panicked
  /\ UNCHANGED <<closed, running, wg, errorChan, chanClosed, stopClosed,
                 pending, sink, book, mu, opts>>

\* Close, line 140-142: `close(e.errorChan); close(e.stopCh)`, the deferred
\* Unlock, return.  Closing a closed channel panics.
CloseChans(t) ==
  /\ Alive /\ pc[t] = "close_chans"
  /\ IF chanClosed \/ stopClosed
       THEN /\ Die(t, "close of closed channel")
            /\ UNCHANGED <<chanClosed, stopClosed, mu, closeReturned, snap,
                           sawRunning>>
       ELSE /\ chanClosed' = TRUE
            /\ stopClosed' = TRUE
            /\ mu' = NoThread
            /\ Return(t, Ok)
            /\ closeReturned' = TRUE
            /\ snap' = [snap EXCEPT ![t] = {}]
            /\ sawRunning' = [sawRunning EXCEPT ![t] = FALSE]
            /\ UNCHANGED panicked
  /\ UNCHANGED <<closed, running, wg, errorChan, loops, pending, sink,
                 opts, nextId, admitted>>

\* ----------------------------------------------------------- StartHandle
\* StartHandle, line 146-149: `if e.IsClosed() { return errors.New(...) }`.
StartIsClosed(t) ==
  /\ Alive /\ pc[t] = "start_check" /\ IsClosedReady
  /\ IF IsClosed THEN Return(t, ErrClosed) ELSE Goto(t, "start_lock")
  /\ UNCHANGED <<inst, sink, book, mu, opts, panicked>>

\* StartHandle, line 151-157: Lock; `e.running = true`; `go e.start()`;
\* return nil (the deferred Unlock runs).  e.running is not read.
StartLock(t) ==
  /\ Alive /\ pc[t] = "start_lock" /\ mu = NoThread
  /\ loops < MaxLoops
  /\ running' = TRUE
  /\ loops' = loops + 1
  /\ Return(t, Ok)
  /\ UNCHANGED <<closed, wg, errorChan, chanClosed, stopClosed, pending,
                 sink, book, mu, opts, panicked>>

\* ------------------------------------------------------ the dispatch loop
\* A receive that leaves the value in the buffer.
AfterRecvPeek(q) == q

\* What `<-e.errorChan` leaves in the buffer.
AfterRecv(q) == Tail(q)

\* handle, line 205-211: with a handler, `go func() { e.handler.HandleError
\* (err) }()`: the call is made by a new goroutine; without one,
\* e.logger.Error is called in the loop.
HandleSpawn(e) == IF handler THEN spawned \cup {e} ELSE spawned

\* A handle that calls the handler itself: the loop is back at its select
\* only when no handler call is under way.
HandleAfterHandler == spawned = {}

\* handle, line 205-208: the handler is called in a goroutine of its own
\* (`go func() {...}()`), so handle returns, and the loop is back at its
\* select, whatever the handler calls under way.
HandleReturns == TRUE

\* A loop that handles and counts down whatever it receives.
SkipsNothing(e) == FALSE

\* start, line 164: `if newError != nil`: the received value is skipped.
SkipsNil(e) == e.isNil

\* start, line 163-167: `case newError := <-e.errorChan`; a non-nil value is
\* passed to e.handle and then `e.wg.Done()`; a nil one is skipped, with no
\* Done.  Done on a zero counter panics.
LoopRecv ==
  /\ Alive /\ loops > 0 /\ Len(errorChan) > 0
  /\ HandleReturns
  /\ LET e == Head(errorChan) IN
       /\ errorChan' = AfterRecv(errorChan)
       /\ IF SkipsNil(e)
            THEN UNCHANGED <<handled, spawned, wg, panicked>>
            ELSE /\ handled' = Append(handled, e)
                 /\ spawned' = HandleSpawn(e)
                 /\ IF wg > 0
                      THEN wg' = wg - 1 /\ UNCHANGED panicked
                      ELSE /\ panicked' = "negative WaitGroup counter"
                           /\ UNCHANGED wg
  /\ UNCHANGED <<closed, running, chanClosed, stopClosed, loops, pending,
                 handlerErrs, book, mu, opts, thr>>

\* start, line 163-167, on the closed and empty errorChan: the receive
\* yields the zero value, a nil error, at once; line 164 skips it and the
\* loop goes round with nothing changed.
LoopRecvClosed ==
  /\ Alive /\ loops > 0 /\ chanClosed /\ Len(errorChan) = 0
  /\ HandleReturns
  /\ IF SkipsNil(NoErr)
       THEN UNCHANGED <<handled, spawned, wg, panicked>>
       ELSE /\ handled' = Append(handled, NoErr)
            /\ spawned' = HandleSpawn(NoErr)
            /\ IF wg > 0
                 THEN wg' = wg - 1 /\ UNCHANGED panicked
                 ELSE /\ panicked' = "negative WaitGroup counter"
                      /\ UNCHANGED wg
  /\ UNCHANGED <<closed, running, errorChan, chanClosed, stopClosed, loops,
                 pending, handlerErrs, book, mu, opts, thr>>

\* start, line 169-171: `case <-e.stopCh` on the closed stopCh: the loop
\* returns.
LoopStopClosed ==
  /\ Alive /\ loops > 0 /\ stopClosed
  /\ loops' = loops - 1
  /\ UNCHANGED <<closed, running, wg, errorChan, chanClosed, stopClosed,
                 pending, sink, book, mu, opts, thr, panicked>>

\* The goroutine of handle, line 206-208: `e.handler.HandleError(err)`; the
\* test handler appends err to th.errs (part_000, line 17-22).
HandlerRun(e) ==
  /\ Alive /\ e \in spawned
  /\ spawned' = spawned \ {e}
  /\ handlerErrs' = Append(handlerErrs, e)
  /\ UNCHANGED <<inst, handled, book, mu, opts, thr, panicked>>

\* ---------------------------------------------------------- specification
\* The callers of the public methods.  (The Add that PanicToError makes for
\* a task is the Add of a caller with a non-nil error; TaskSpec and GoSpec
\* below tell the two apart.)
Calls(t) ==
  \/ \E isnil \in BOOLEAN : CallAdd(t, isnil)
  \/ \E isnil \in BOOLEAN : CallAddAsync(t, isnil)
  \/ CallStop(t)
  \/ CallClose(t)
  \/ CallStartHandle(t)

Steps(t) ==
  \/ AddIsClosed(t) \/ AddWg(t) \/ AddSend(t)
  \/ AddAsyncIsClosed(t) \/ AddAsyncSpawn(t)
  \/ StopLock(t) \/ StopSend(t)
  \/ CloseIsClosed(t) \/ CloseLock(t) \/ CloseWait(t) \/ CloseStopSend(t)
  \/ CloseChans(t)
  \/ StartIsClosed(t) \/ StartLock(t)

Background ==
  \/ \E e \in pending : AsyncSend(e)
  \/ LoopRecv
  \/ LoopRecvClosed
  \/ LoopStopClosed
  \/ \E e \in spawned : HandlerRun(e)

Next ==
  \/ \E t \in Threads : Calls(t)
  \/ \E t \in Threads : Steps(t)
  \/ Background

Spec == Init /\ [][Next]_vars

\* The overflow scenario (TestOverflowErrorChan): callers add and start
\* handling; nobody stops or closes.  Go schedules every runnable goroutine:
\* the callers, the goroutines of AddAsync and the dispatch loop.
OverflowCalls(t) ==
  \/ \E isnil \in BOOLEAN : CallAdd(t, isnil)
  \/ \E isnil \in BOOLEAN : CallAddAsync(t, isnil)
  \/ CallStartHandle(t)

OverflowSteps(t) ==
  \/ AddIsClosed(t) \/ AddWg(t) \/ AddSend(t)
  \/ AddAsyncIsClosed(t) \/ AddAsyncSpawn(t)
  \/ StartIsClosed(t) \/ StartLock(t)

\* stopCh is never closed here, so no loop returns.
OverflowBackground ==
  \/ \E e \in pending : AsyncSend(e)
  \/ LoopRecv
  \/ \E e \in spawned : HandlerRun(e)

OverflowNext ==
  \/ \E t \in Threads : OverflowCalls(t)
  \/ \E t \in Threads : OverflowSteps(t)
  \/ OverflowBackground

OverflowSpec ==
  /\ Init
  /\ [][OverflowNext]_vars
  /\ \A t \in Threads : WF_vars(OverflowSteps(t))
  /\ WF_vars(\E e \in pending : AsyncSend(e))
  /\ WF_vars(LoopRecv)

\* The tasks: goroutines run under Go (or with PanicToError deferred, as in
\* TestPanicInGoroutine) next to callers that add, start handling and close.
TaskCalls(t) ==
  \/ CallGo(t)
  \/ \E isnil \in BOOLEAN : CallAdd(t, isnil)
  \/ CallStartHandle(t)
  \/ CallClose(t)

TaskSteps(t) ==
  \/ \E panics \in BOOLEAN : TaskRun(t, panics)
  \/ AddIsClosed(t) \/ AddWg(t) \/ AddSend(t)
  \/ StartIsClosed(t) \/ StartLock(t)
  \/ CloseIsClosed(t) \/ CloseLock(t) \/ CloseWait(t) \/ CloseStopSend(t)
  \/ CloseChans(t)

TaskBackground ==
  \/ LoopRecv
  \/ LoopRecvClosed
  \/ LoopStopClosed
  \/ \E e \in spawned : HandlerRun(e)

TaskNext ==
  \/ \E t \in Threads : TaskCalls(t)
  \/ \E t \in Threads : TaskSteps(t)
  \/ TaskBackground

TaskSpec == Init /\ [][TaskNext]_vars

\* The tasks on an instance nobody stops or closes (TestPanicInGoroutine,
\* TestPanicInGoroutineWrapper): Go schedules every runnable goroutine, the
\* tasks, the callers and the dispatch loop.
GoCalls(t) ==
  \/ CallGo(t)
  \/ \E isnil \in BOOLEAN : CallAdd(t, isnil)
  \/ CallStartHandle(t)

GoSteps(t) ==
  \/ \E panics \in BOOLEAN : TaskRun(t, panics)
  \/ AddIsClosed(t) \/ AddWg(t) \/ AddSend(t)
  \/ StartIsClosed(t) \/ StartLock(t)

GoBackground ==
  \/ LoopRecv
  \/ \E e \in spawned : HandlerRun(e)

GoNext ==
  \/ \E t \in Threads : GoCalls(t)
  \/ \E t \in Threads : GoSteps(t)
  \/ GoBackground

GoSpec ==
  /\ Init
  /\ [][GoNext]_vars
  /\ \A t \in Threads : WF_vars(GoSteps(t))
  /\ WF_vars(LoopRecv)

\* ================================================================ claims
\* The elements of a sequence.
Range(s) == {s[i] : i \in 1..Len(s)}

\* The errors passed to the handling step so far.
HandledSet == Range(handled)

\* Close of caller t returns from its last statement.
CloseReturns(t) == pc[t] = "close_chans" /\ pc'[t] = "idle"

\* Caller t passes wg.Wait of Close.
ClosePassesWait(t) == pc[t] = "close_wait" /\ pc'[t] = "close_stop"

\* C1: a Close that finds the instance running (e.running read under the
\* lock) passes its wait only when every error admitted before the call,
\* by Add or by AddAsync, has been passed to the handling step and the
\* counter is zero; when it returns, running is false and closed is true.
C1_CloseDrains ==
  [][\A t \in Threads :
       /\ ClosePassesWait(t) => (snap[t] \subseteq HandledSet /\ wg = 0)
       /\ (CloseReturns(t) /\ sawRunning[t]) =>
            /\ snap[t] \subseteq Range(handled')
            /\ ~running'
            /\ closed']_vars

\* C1 witness: a Close that found the instance running has drained at least
\* two errors admitted before it, one of them by AddAsync, and is about to
\* return.
C1_Witness ==
  \E t \in Threads :
    /\ pc[t] = "close_chans" /\ sawRunning[t]
    /\ Cardinality(snap[t]) >= 2
    /\ \E e \in snap[t] : ~e.sync

\* The handler invocations come in the order of the Add calls of each
\* producer.
AddOrder(s) ==
  \A i, j \in 1..Len(s) :
    (i < j /\ s[i].by = s[j].by /\ s[i].sync /\ s[j].sync) => s[i].id < s[j].id

\* C2: with a handler, when a Close on a running instance returns, the
\* handler has been invoked with every error a producer added before, in
\* the order the producer added them.
C2_HandlerCallsBeforeCloseReturns ==
  [][\A t \in Threads :
       (CloseReturns(t) /\ sawRunning[t] /\ handler) =>
         /\ \A e \in snap[t] : e.sync => e \in Range(handlerErrs')
         /\ AddOrder(handlerErrs')]_vars

\* Caller t takes the IsClosed step of Add, AddAsync or StartHandle.
ChecksClosed(t) ==
  /\ pc[t] \in {"add_check", "async_check", "start_check"}
  /\ pc'[t] # pc[t]

\* C3: once a Close has returned, Add, AddAsync and StartHandle return the
\* closed failure and change nothing: the queue, the counter, what was
\* handled, the loops, running and closed (which is true) are as before.
C3_RejectedAfterClose ==
  [][\A t \in Threads :
       (closeReturned /\ ChecksClosed(t)) =>
         /\ pc'[t] = "idle" /\ ret'[t] = ErrClosed
         /\ UNCHANGED <<inst, sink, mu, admitted>>
         /\ closed']_vars

\* C3 witness: after a Close has returned, a call has been rejected.
C3_Witness ==
  /\ closeReturned /\ Alive
  /\ \E t \in Threads : pc[t] = "idle" /\ ret[t] = ErrClosed

\* C4: at most one dispatch loop is alive.
C4_AtMostOneLoop == loops <= 1

\* C5: no error is passed to the handling step twice.
C5_HandledOnce ==
  \A i, j \in 1..Len(handled) : i # j => handled[i] # handled[j]

\* C5 witness: StartHandle was called twice while running (two loops are
\* alive) and both errors of the run have been handled.
C5_Witness == loops = 2 /\ running /\ Len(handled) = MaxErrs

\* Caller t takes the IsClosed step of Close.
CloseChecks(t) == pc[t] = "close_check" /\ pc'[t] # pc[t]

\* C6: a Close made after a Close has returned returns at once: no panic,
\* no channel closed again, the instance as it was.
C6_CloseIdempotent ==
  [][\A t \in Threads :
       (closeReturned /\ CloseChecks(t)) =>
         /\ pc'[t] = "idle"
         /\ panicked' = "none"
         /\ closed'
         /\ UNCHANGED <<inst, sink, mu>>]_vars

\* C6 witness: a second Close is called on the closed instance, whose
\* channels the first Close closed.
C6_Witness ==
  /\ closeReturned /\ chanClosed /\ stopClosed /\ Alive
  /\ \E t \in Threads : pc[t] = "close_check"

\* C7: no goroutine sends on a closed errorChan or stopCh.
C7_NoSendOnClosed == panicked # "send on closed channel"

\* C8: while the instance is stopped (not running, not closed, no Stop or
\* Close in progress) nothing is dequeued or handled.
C8_StoppedMeansNoDequeue ==
  [][(~running /\ ~closed /\ mu = NoThread) =>
       (handled' = handled /\ Len(errorChan') >= Len(errorChan))]_vars

\* C9: in the overflow scenario AddAsync never waits, and with the queue
\* full and no loop started it returns nil leaving the queue as it is; once
\* the instance is running every admitted (non-nil) error is handled in the
\* end.
C9_Overflow ==
  /\ [](\A t \in Threads : pc[t] = "async_check" => IsClosedReady)
  /\ [][\A t \in Threads :
          (/\ pc[t] = "async_spawn" /\ pc'[t] # pc[t]
           /\ loops = 0 /\ Len(errorChan) = ErrorChanLen) =>
            /\ pc'[t] = "idle" /\ ret'[t] = Ok
            /\ errorChan' = errorChan
            /\ arg[t] \in admitted']_vars
  /\ \A n \in 1..MaxErrs :
       (running /\ \E e \in admitted : e.id = n /\ ~e.isNil)
         ~> (\E e \in HandledSet : e.id = n)

\* C9 witness: as many errors as the queue holds were admitted by Add, the
\* later ones by AddAsync, and all of them have been handled.
C9_Witness ==
  /\ Len(handled) = MaxErrs
  /\ Cardinality({e \in HandledSet : e.sync}) = ErrorChanLen
  /\ \A e \in HandledSet : ~e.sync => e.id > ErrorChanLen

\* The goroutine holding e.mu is itself waiting: Close in wg.Wait with a
\* non-zero counter, or Stop or Close in the send on stopCh with no loop to
\* receive it.
LockHolderWaits ==
  /\ mu # NoThread
  /\ \/ pc[mu] = "close_wait" /\ wg # 0
     \/ pc[mu] \in {"close_stop", "stop_send"} /\ loops = 0 /\ ~stopClosed

\* C10: a caller of AddAsync never has to wait for another goroutine to make
\* progress: the lock its IsClosed needs is never held by a goroutine that
\* is waiting itself (Close waiting for the drain).
C10_AddAsyncNeverWaits ==
  \A t \in Threads : (Alive /\ pc[t] = "async_check") => ~LockHolderWaits

\* The task of caller t ends: f returned, or the Add of PanicToError did.
TaskEnds(t) ==
  /\ pc'[t] = "idle"
  /\ \/ pc[t] = "go_run"
     \/ pc[t] \in {"add_check", "add_send"} /\ arg[t].rec

\* C11: on an instance that is started and never stopped or closed, a panic
\* of a task never ends the program; the error PanicToError makes of it is
\* admitted once (its Add returns nil with the error new in the queue) and,
\* the instance running, is handled in the end, and no more than once; a
\* task that does not panic admits nothing and changes nothing.
C11_PanicBecomesOneError ==
  /\ [](Alive)
  /\ [][\A t \in Threads :
          /\ (TaskEnds(t) /\ pc[t] # "go_run") =>
               /\ ret'[t] = Ok
               /\ arg[t] \notin admitted /\ arg[t] \in admitted'
               /\ arg[t] \notin Range(errorChan)
               /\ errorChan' = Append(errorChan, arg[t])
          /\ (TaskEnds(t) /\ pc[t] = "go_run") =>
               UNCHANGED <<inst, sink, mu, nextId, admitted>>]_vars
  /\ \A n \in 1..MaxErrs :
       /\ (running /\ \E t \in Threads : arg[t].id = n /\ arg[t].rec)
            ~> (\E e \in HandledSet : e.id = n /\ e.rec)
       /\ [](Cardinality({i \in 1..Len(handled) : handled[i].id = n}) <= 1)

\* C11 witness: two tasks panicked on the running instance, and the errors
\* made of both panics have been handled.
C11_Witness ==
  /\ running /\ Alive /\ Len(handled) = 2
  /\ \A e \in HandledSet : e.rec
  /\ \A t \in Threads : pc[t] = "idle"

\* th.errs: the errors the handler was invoked with.  handle wraps the
\* dequeued error (line 202-203) before it starts the goroutine that calls
\* the handler; e.baseError never changes.
ThErrs == [i \in 1..Len(handlerErrs) |-> HandleErr(handlerErrs[i])]

\* C12: with a base error configured, the error the handler gets for an
\* added error O is the handling annotation, wrapping O, wrapping the base
\* error: errors.Is finds both O and the base error in it.
C12_ChainHasOriginalAndBase ==
  \A i \in 1..Len(handlerErrs) :
    (baseError # NoBase /\ ~handlerErrs[i].rec) =>
      /\ ThErrs[i][1] = ErrVal("HandleError()", handlerErrs[i].id)
      /\ ThErrs[i][Len(ThErrs[i])] = baseError
      /\ Is(ThErrs[i], baseError)
      /\ Is(ThErrs[i], ChainOf(handlerErrs[i])[1])

\* C13: whenever a Close returns from closing the channels, whatever the
\* instance was when it was called (idle, running or stopped), every non-nil
\* error admitted before the call has been handled and none is left in
\* the queue or with a goroutine of AddAsync.
C13_CloseDrainsInEveryState ==
  [][\A t \in Threads :
       CloseReturns(t) =>
         /\ \A e \in snap[t] : ~e.isNil => e \in Range(handled')
         /\ snap[t] \cap Range(errorChan') = {}
         /\ snap[t] \cap pending' = {}]_vars

\* The errors wg.Add(1) was called for: those admitted and those of the
\* callers of Add waiting to send.
Counted ==
  admitted \cup {arg[t] : t \in {u \in Threads : pc[u] = "add_send"}}

\* The admitted errors a dispatch loop has taken out of the queue.
Dequeued == admitted \ (Range(errorChan) \cup pending)

\* C14: the counter is the number of errors admitted by Add and AddAsync
\* (nil ones too) minus the number of those dequeued: one up for each
\* admission, one down for each dequeued error.
C14_CounterIsAdmittedMinusDequeued ==
  Alive => wg = Cardinality(Counted) - Cardinality(Dequeued)

\* C15: whenever no Stop or Close is in progress (e.mu is free, the state
\* IsRunning and IsClosed can see), running implies not closed, running
\* implies a live dispatch loop, and not running implies no live loop.
C15_RunningMeansOpenAndLooping ==
  (Alive /\ mu = NoThread) =>
    /\ running => ~closed
    /\ running => loops >= 1
    /\ ~running => loops = 0

\* C16: closed never goes back from true to false; it can change only from
\* false to true, and only a Close taking the lock changes it.
C16_ClosedMonotonic ==
  [][/\ closed => closed'
     /\ closed' # closed =>
          \E t \in Threads : pc[t] = "close_lock" /\ pc'[t] # pc[t]]_vars

\* C16 witness: two Close calls both passed the closed check; the first has
\* set the flag and returned, the second has set it again (the flag is
\* true) and holds the lock.
C16_Witness ==
  /\ closed /\ closeReturned /\ Alive
  /\ \E t \in Threads : mu = t /\ pc[t] = "close_chans"

\* C17: a Stop on an instance that is not running (idle, stopped or closed)
\* returns in its first step and changes nothing: no stop signal is sent
\* (no loop ends, the lock is not kept), and running, closed, the queue, the
\* counter and what was handled are as before; and the lock this Stop needs
\* is never held by a goroutine that is itself waiting.
C17_StopWhenNotRunning ==
  /\ [][\A t \in Threads :
          (pc[t] = "stop_lock" /\ pc'[t] # pc[t] /\ ~running) =>
            /\ pc'[t] = "idle"
            /\ panicked' = "none"
            /\ UNCHANGED <<inst, sink, mu, admitted>>]_vars
  /\ [](\A t \in Threads :
          (Alive /\ pc[t] = "stop_lock" /\ ~running) => ~LockHolderWaits)

\* C17 witness: Stop is called on a stopped instance (it ran, handled an
\* error, and was stopped) that still has an error in its queue.
C17_Witness ==
  /\ ~running /\ ~closed /\ loops = 0 /\ mu = NoThread /\ Alive
  /\ Len(handled) > 0 /\ Len(errorChan) > 0 /\ wg > 0
  /\ \E t \in Threads : pc[t] = "stop_lock"

\* C18: handler calls are fire-and-forget.  With a live loop and a
\* non-empty queue the next dequeue can happen however many handler calls
\* have not completed; the dequeue of a non-nil error starts its handler
\* call and counts the counter down in the same step, without a handler
\* call completing; and a Close waiting for the drain can go on as soon as
\* the counter is zero, whatever handler calls are still under way.
C18_HandlerFireAndForget ==
  /\ [](Alive /\ loops > 0 /\ Len(errorChan) > 0 => ENABLED LoopRecv)
  /\ [](\A t \in Threads :
          (Alive /\ pc[t] = "close_wait" /\ wg = 0) => ENABLED CloseWait(t))
  /\ [][Len(handled') > Len(handled) =>
          /\ wg' = wg - 1
          /\ handlerErrs' = handlerErrs
          /\ handler => spawned' = spawned \cup {handled'[Len(handled')]}]_vars

\* C18 witness: a Close that found the instance running has passed its
\* wait and is about to return, two errors admitted before it were
\* dequeued and handed off, and neither handler call has completed.
C18_Witness ==
  \E t \in Threads :
    /\ pc[t] = "close_chans" /\ sawRunning[t] /\ Alive
    /\ Cardinality(snap[t]) = 2 /\ Cardinality(spawned) = 2
    /\ Len(handled) = 2 /\ Len(handlerErrs) = 0

\* Add of caller t returns nil.
AddReturnsNil(t) == pc[t] = "add_send" /\ pc'[t] = "idle"

C20_PanicOnClosedIsDropped ==
  [][\A t \in Threads :
       (pc[t] = "add_check" /\ arg[t].rec /\ closed /\ pc'[t] # pc[t]) =>
         /\ pc'[t] = "idle" /\ ret'[t] = ErrClosed /\ arg'[t] = NoErr
         /\ panicked' = "none"
         /\ UNCHANGED <<inst, sink, mu, admitted>>]_vars

\* C20 witness: a Close has returned, the instance is closed, and a task
\* whose panic PanicToError recovered is about to call Add.
C20_Witness ==
  /\ closed /\ closeReturned /\ chanClosed /\ Alive /\ mu = NoThread
  /\ \E t \in Threads : pc[t] = "add_check" /\ arg[t].rec

\* C21: the task that PanicToError runs in is never held up by a full
\* queue: whenever it is at the send of its Add, the send can complete.
C21_PanicAddNeverBlocks ==
  \A t \in Threads :
    (Alive /\ pc[t] = "add_send" /\ arg[t].rec) => ENABLED AddSend(t)

\* C22: with no base error configured, the error handle passes on for an
\* added error O (to the handler or the logger) is the handling annotation
\* wrapping O and nothing else, and nothing of an absent base is in it.
C22_NoBaseNoChaining ==
  \A i \in 1..Len(handled) :
    (baseError = NoBase /\ ~handled[i].rec) =>
      /\ HandleErr(handled[i]) =
           <<ErrVal("HandleError()", handled[i].id)>> \o ChainOf(handled[i])
      /\ \A k \in 1..Len(HandleErr(handled[i])) :
           HandleErr(handled[i])[k] # NoBase
      /\ \A k \in 1..Len(HandleText(handled[i])) :
           HandleText(handled[i])[k] # "%!w(<nil>)"

\* C23: with Close calls running concurrently, errorChan and stopCh are
\* each closed at most once: no Close meets a channel another Close has
\* closed, and no call panics.
C23_ConcurrentCloseOnce ==
  /\ panicked # "close of closed channel"
  /\ \A t \in Threads :
       pc[t] \in {"close_lock", "close_wait", "close_stop", "close_chans"} =>
         ~chanClosed /\ ~stopClosed

\* The errors wg.Add(1) was or is about to be called for that no loop has
\* received yet: in the queue, with a goroutine of AddAsync, or with a
\* caller that has passed the closed check of Add or AddAsync.
StillToCome ==
  Range(errorChan) \cup pending \cup
    {arg[u] : u \in {v \in Threads : pc[v] \in {"add_wg", "add_send",
                                                "async_spawn"}}}

\* C24: a Close waiting in wg.Wait on a running instance can always get
\* on: the counter is zero, or an error whose dequeue counts it down is
\* still to come.  (Close holds e.mu, so no new call passes the closed
\* check: where this fails the counter stays above zero forever and Close
\* never returns.)
C24_CloseWaitCanEnd ==
  \A t \in Threads :
    (Alive /\ pc[t] = "close_wait") =>
      (wg = 0 \/ \E e \in StillToCome : ~e.isNil)

\* C25: the counter is never negative and no Done is called on a zero
\* counter; it goes down only by one, from above zero, in the step that
\* dequeues a non-nil error; with the queue closed and empty no step, a
\* live loop's receive included, counts it down or handles anything.
C25_CounterNeverNegative ==
  /\ [](wg >= 0 /\ panicked # "negative WaitGroup counter")
  /\ [][/\ wg' < wg =>
             /\ wg > 0 /\ wg' = wg - 1
             /\ Len(errorChan) > 0 /\ ~Head(errorChan).isNil
             /\ errorChan' = Tail(errorChan)
        /\ (chanClosed /\ Len(errorChan) = 0) =>
             (wg' >= wg /\ handled' = handled)]_vars

\* C25 witness: Close has closed the queue, which is empty, the counter is
\* zero, errors were handled before, and a dispatch loop is still alive to
\* receive from the closed queue.
C25_Witness ==
  /\ Alive /\ chanClosed /\ closeReturned /\ Len(errorChan) = 0
  /\ loops > 0 /\ wg = 0 /\ Len(handled) > 0

====
